---------------------------- MODULE Spec2Model ----------------------------
(***************************************************************************)
(* Model of raiden/channel.py: the lock container (LockedTransfers), one   *)
(* end of a channel (ChannelEndState), the chain facts a channel reads     *)
(* (ChannelExternalState) and the channel itself (Channel).                *)
(*                                                                         *)
(* Every method is an operator from the object's state and the call's      *)
(* arguments to the state after the call and the exception it raised       *)
(* ("none" when it returned).  The actions apply these operators to the    *)
(* variables.                                                              *)
(***************************************************************************)
EXTENDS Integers, Sequences, FiniteSets, TLC

VARIABLES
    chan,      \* the Channel object of the local node
    chanB,     \* the partner node's Channel object for the same channel
    block,     \* what external_state.get_block_number() returns
    locks      \* a LockedTransfers container used on its own

vars == <<chan, chanB, block, locks>>

---------------------------------------------------------------------------
(* Bounds of the model. *)

MaxTransfers == 2   \* transfers a channel accepts before the model stops accepting
MaxBlock == 2       \* the block number stops advancing here
MaxBalance == 1     \* the largest deposit the chain reports
MaxHashes == 3      \* the longest hash list of a container used on its own

(* The block up to which the specification of expiring locks advances. *)
MaxExpiryBlock == 3

(* Constructor arguments of Channel (block counts). *)
reveal_timeout == 1
settle_timeout == 4

Secrets == {1, 2}
LockAmounts == 0 .. MaxBalance
Expirations == {3, 5}

NoSecret == 0
NoError == "none"

(* sha3 of a secret: the hashlock.  Collision free on the secrets used. *)
sha3(secret) == secret + 10

Hashlocks == {sha3(s) : s \in Secrets}

(* A Lock, and the absent lock (None). *)
Lock(amount, expiration, hashlock) ==
    [amount |-> amount, expiration |-> expiration, hashlock |-> hashlock]

NoLock == Lock(0, 0, 0)

Locks == {Lock(a, e, h) : a \in LockAmounts, e \in Expirations, h \in Hashlocks}

(* sha3(lock.as_bytes): the bytes are amount || expiration || hashlock, and *)
(* the hash is collision free, so the hash is modelled by the byte string. *)
sha3_lock(lock) == <<lock.amount, lock.expiration, lock.hashlock>>

(* Merkle roots are byte strings too.  NoRoot is None, EmptyRoot the root  *)
(* of no locks.                                                            *)
NoRoot == <<>>
EmptyRoot == <<0>>

---------------------------------------------------------------------------
(* Messages. *)

Transfer(type, nonce, asset, transfered_amount, recipient, sender, locksroot, secret, lock) ==
    [type |-> type, nonce |-> nonce, asset |-> asset,
     transfered_amount |-> transfered_amount, recipient |-> recipient,
     sender |-> sender, locksroot |-> locksroot, secret |-> secret,
     lock |-> lock]

NoTransfer == Transfer("None", 0, "none", 0, "none", "none", NoRoot, NoSecret, NoLock)

(* isinstance(transfer, LockedTransfer): MediatedTransfer and              *)
(* RefundTransfer derive from LockedTransfer.                              *)
IsLockedTransfer(t) == t.type \in {"LockedTransfer", "MediatedTransfer", "RefundTransfer"}

IsDirectTransfer(t) == t.type = "DirectTransfer"

---------------------------------------------------------------------------
(* Python list operations. *)

InSeq(x, s) == \E i \in 1 .. Len(s) : s[i] = x

IndexOf(x, s) == CHOOSE i \in 1 .. Len(s) : s[i] = x /\ \A j \in 1 .. (i - 1) : s[j] # x

(* list.remove(x): removes the first occurrence. *)
RemoveFirst(s, x) ==
    LET k == IndexOf(x, s)
    IN  [i \in 1 .. (Len(s) - 1) |-> IF i < k THEN s[i] ELSE s[i + 1]]

---------------------------------------------------------------------------
(* raiden.mtree: a binary Merkle tree over the sequence of lock hashes.    *)

hash_pair(first, second) == <<-1>> \o first \o second

merkle_layer(s) ==
    [i \in 1 .. ((Len(s) + 1) \div 2) |->
        IF 2 * i <= Len(s) THEN hash_pair(s[2 * i - 1], s[2 * i]) ELSE s[2 * i - 1]]

RECURSIVE merkleroot(_)
merkleroot(s) ==
    IF Len(s) = 0 THEN EmptyRoot
    ELSE IF Len(s) = 1 THEN s[1]
    ELSE merkleroot(merkle_layer(s))

(* The sibling chain of the hash at position i: at every layer the hash   *)
(* paired with it and the side it stands on; a hash carried up unpaired   *)
(* has no sibling at that layer.                                          *)
RECURSIVE proof_at(_, _)
proof_at(s, i) ==
    IF Len(s) <= 1 THEN <<>>
    ELSE (IF i % 2 = 0 THEN <<[side |-> "left", hash |-> s[i - 1]]>>
          ELSE IF i + 1 <= Len(s) THEN <<[side |-> "right", hash |-> s[i + 1]]>>
          ELSE <<>>)
         \o proof_at(merkle_layer(s), (i + 1) \div 2)

mtree_get_proof(lst, proof_for) ==
    IF InSeq(proof_for, lst)
    THEN [proof |-> proof_at(lst, IndexOf(proof_for, lst)), err |-> NoError]
    ELSE [proof |-> <<>>, err |-> "ValueError"]

RECURSIVE check_proof(_, _, _)
check_proof(proof, root, hash) ==
    IF proof = <<>> THEN hash = root
    ELSE check_proof(Tail(proof), root,
                     IF Head(proof).side = "left"
                     THEN hash_pair(Head(proof).hash, hash)
                     ELSE hash_pair(hash, Head(proof).hash))

---------------------------------------------------------------------------
(* class LockedTransfers *)

LockedTransfers ==
    [locked |-> [h \in Hashlocks |-> NoTransfer],
     cached_lock_hashes |-> <<>>,
     cached_root |-> NoRoot]

Contains(ls, hashlock) == hashlock \in Hashlocks /\ ls.locked[hashlock] # NoTransfer

Held(ls) == {h \in Hashlocks : Contains(ls, h)}

(* add with the new hash put at the head of the list *)
add_at_front(ls, transfer) ==
    IF Contains(ls, transfer.lock.hashlock)
    THEN [ls |-> ls, err |-> "AssertionError"]
    ELSE [ls |-> [locked |-> [ls.locked EXCEPT ![transfer.lock.hashlock] = transfer],
                  cached_lock_hashes |->
                      <<sha3_lock(transfer.lock)>> \o ls.cached_lock_hashes,
                  cached_root |-> NoRoot],
          err |-> NoError]

add(ls, transfer) ==
    IF Contains(ls, transfer.lock.hashlock)
    THEN [ls |-> ls, err |-> "AssertionError"]
    ELSE [ls |-> [locked |-> [ls.locked EXCEPT ![transfer.lock.hashlock] = transfer],
                  cached_lock_hashes |->
                      Append(ls.cached_lock_hashes, sha3_lock(transfer.lock)),
                  cached_root |-> NoRoot],
          err |-> NoError]

(* remove, without the removal of the hash from the list of hashes. *)
remove_keeping_hash(ls, hashlock) ==
    IF ~Contains(ls, hashlock)
    THEN [ls |-> ls, err |-> "KeyError"]
    ELSE [ls |-> [locked |-> [ls.locked EXCEPT ![hashlock] = NoTransfer],
                  cached_lock_hashes |-> ls.cached_lock_hashes,
                  cached_root |-> NoRoot],
          err |-> NoError]

remove(ls, hashlock) ==
    IF ~Contains(ls, hashlock)
    THEN [ls |-> ls, err |-> "KeyError"]
    ELSE LET lock_hash == sha3_lock(ls.locked[hashlock].lock)
         IN  IF ~InSeq(lock_hash, ls.cached_lock_hashes)
             THEN [ls |-> ls, err |-> "ValueError"]
             ELSE [ls |-> [locked |-> [ls.locked EXCEPT ![hashlock] = NoTransfer],
                           cached_lock_hashes |->
                               RemoveFirst(ls.cached_lock_hashes, lock_hash),
                           cached_root |-> NoRoot],
                   err |-> NoError]

RECURSIVE SumAmounts(_, _)
SumAmounts(ls, hs) ==
    IF hs = {} THEN 0
    ELSE LET h == CHOOSE x \in hs : TRUE
         IN  ls.locked[h].lock.amount + SumAmounts(ls, hs \ {h})

(* outstanding, counting only the locks that have not expired at block *)
(* MaxExpiryBlock.                                                    *)
outstanding_of_unexpired(ls) ==
    SumAmounts(ls, {h \in Held(ls) : ls.locked[h].lock.expiration > MaxExpiryBlock})

outstanding(ls) == SumAmounts(ls, Held(ls))

(* The root property: the value it returns, and the container afterwards   *)
(* (the value is cached).                                                  *)
root(ls) == IF ls.cached_root = NoRoot THEN merkleroot(ls.cached_lock_hashes) ELSE ls.cached_root

root_cached(ls) == [ls EXCEPT !.cached_root = root(ls)]

(* root_with that registers the included lock instead of adding its hash  *)
(* for the time of the computation only                                    *)
root_with_keeps_lock(ls, lock, exclude) ==
    LET h1 == IF lock # NoLock THEN Append(ls.cached_lock_hashes, sha3_lock(lock))
              ELSE ls.cached_lock_hashes
        h2 == IF exclude # NoLock THEN RemoveFirst(h1, sha3_lock(exclude)) ELSE h1
        kept == IF lock # NoLock
                THEN [ls.locked EXCEPT ![lock.hashlock] =
                         Transfer("LockedTransfer", 1, "asset", 0, "partner", "our",
                                  merkleroot(h2), NoSecret, lock)]
                ELSE ls.locked
    IN  [ls |-> [ls EXCEPT !.cached_lock_hashes = h2, !.locked = kept],
         root |-> merkleroot(h2), err |-> NoError]

(* root_with that computes the root before taking the excluded hash out    *)
root_with_forgets_exclude(ls, lock, exclude) ==
    [ls |-> ls,
     root |-> merkleroot(IF lock # NoLock
                         THEN Append(ls.cached_lock_hashes, sha3_lock(lock))
                         ELSE ls.cached_lock_hashes),
     err |-> NoError]

root_with(ls, lock, exclude) ==
    LET lock_hash == sha3_lock(lock)
        exclude_hash == sha3_lock(exclude)
        h1 == IF lock # NoLock THEN Append(ls.cached_lock_hashes, lock_hash)
              ELSE ls.cached_lock_hashes
    IN  IF exclude # NoLock /\ ~InSeq(exclude_hash, h1)
        THEN [ls |-> [ls EXCEPT !.cached_lock_hashes = h1],
              root |-> NoRoot, err |-> "ValueError"]
        ELSE
        LET h2 == IF exclude # NoLock THEN RemoveFirst(h1, exclude_hash) ELSE h1
        IN  IF lock # NoLock /\ ~InSeq(lock_hash, h2)
            THEN [ls |-> [ls EXCEPT !.cached_lock_hashes = h2],
                  root |-> NoRoot, err |-> "AssertionError"]
            ELSE
            LET h3 == IF lock # NoLock THEN RemoveFirst(h2, lock_hash) ELSE h2
                h4 == IF exclude # NoLock THEN Append(h3, exclude_hash) ELSE h3
            IN  [ls |-> [ls EXCEPT !.cached_lock_hashes = h4],
                 root |-> merkleroot(h2), err |-> NoError]

get_proof(ls, transfer) ==
    IF ~Contains(ls, transfer.lock.hashlock)
    THEN [proof |-> <<>>, err |-> "KeyError"]
    ELSE mtree_get_proof(ls.cached_lock_hashes,
                         sha3_lock(ls.locked[transfer.lock.hashlock].lock))

---------------------------------------------------------------------------
(* class ChannelEndState *)

ChannelEndState(participant_address, participant_balance) ==
    [contract_balance |-> participant_balance,
     transfered_amount |-> 0,
     address |-> participant_address,
     nonce |-> 1,
     locked |-> LockedTransfers]

(* a balance that leaves out what the other end has transferred *)
balance_without_received(self, other) ==
    self.contract_balance - self.transfered_amount

balance(self, other) ==
    self.contract_balance - self.transfered_amount + other.transfered_amount

update_contract_balance(self, contract_balance) ==
    [self EXCEPT !.contract_balance = contract_balance]

(* a distributable that forgets what is locked *)
distributable_ignoring_locks(self, other) == balance(self, other)

distributable(self, other) == balance(self, other) - outstanding(other.locked)

(* a claim that removes the lock and credits nothing *)
claim_locked_without_credit(self, partner, hashlock, locksroot, rw) ==
    IF rw.err # NoError
    THEN [self |-> [self EXCEPT !.locked = rw.ls], partner |-> partner, err |-> rw.err]
    ELSE IF locksroot # NoRoot /\ rw.root # locksroot
    THEN [self |-> [self EXCEPT !.locked = rw.ls], partner |-> partner,
          err |-> "InvalidLocksRoot"]
    ELSE [self |-> [self EXCEPT !.locked = remove(rw.ls, hashlock).ls],
          partner |-> partner,
          err |-> remove(rw.ls, hashlock).err]

(* claim_locked(self, partner, secret, locksroot): both ends afterwards.   *)
claim_locked_with(self, partner, hashlock, locksroot, rw) ==
    IF rw.err # NoError
    THEN [self |-> [self EXCEPT !.locked = rw.ls], partner |-> partner, err |-> rw.err]
    ELSE IF locksroot # NoRoot /\ rw.root # locksroot
    THEN [self |-> [self EXCEPT !.locked = rw.ls], partner |-> partner,
          err |-> "InvalidLocksRoot"]
    ELSE [self |-> [self EXCEPT !.locked = remove(rw.ls, hashlock).ls],
          partner |-> [partner EXCEPT !.transfered_amount =
                                          @ + self.locked.locked[hashlock].lock.amount],
          err |-> remove(rw.ls, hashlock).err]

(* ChannelEndState.claim_locked(partner, secret, locksroot); root_with is  *)
(* called only with a locksroot.                                           *)
ChannelEndState_claim_locked(self, partner, secret, locksroot) ==
    IF ~Contains(self.locked, sha3(secret))
    THEN [self |-> self, partner |-> partner, err |-> "InvalidSecret"]
    ELSE claim_locked_with(self, partner, sha3(secret), locksroot,
                           IF locksroot # NoRoot
                           THEN root_with(self.locked, NoLock,
                                          self.locked.locked[sha3(secret)].lock)
                           ELSE [ls |-> self.locked, root |-> NoRoot, err |-> NoError])

---------------------------------------------------------------------------
(* class ChannelExternalState *)

ChannelExternalState(opened, closed, settled) ==
    [opened_block |-> opened, closed_block |-> closed, settled_block |-> settled,
     hashlocks |-> {}]

isopen(external_state) ==
    IF external_state.closed_block # 0 THEN FALSE
    ELSE IF external_state.opened_block # 0 THEN TRUE
    ELSE FALSE

(* register_channel_for_hashlock(channel, hashlock) *)
register_channel_for_hashlock(external_state, hashlock) ==
    [external_state EXCEPT !.hashlocks = @ \cup {hashlock}]

---------------------------------------------------------------------------
(* class Channel.  transfer_callbacks stays empty: no call passes a        *)
(* callback.                                                               *)

Channel(our_state, partner_state, external_state, asset_address) ==
    [our_state |-> our_state,
     partner_state |-> partner_state,
     asset_address |-> asset_address,
     external_state |-> external_state,
     received_transfers |-> <<>>,
     sent_transfers |-> <<>>]

Other(end) == IF end = "our_state" THEN "partner_state" ELSE "our_state"

(* Channel.claim_locked(secret, locksroot) *)
claimed(ch, self, partner, r) ==
    [ch |-> [ch EXCEPT ![self] = r.self, ![partner] = r.partner], err |-> r.err]

Channel_claim_locked(ch, secret, locksroot) ==
    IF Contains(ch.our_state.locked, sha3(secret))
    THEN claimed(ch, "our_state", "partner_state",
                 ChannelEndState_claim_locked(ch.our_state, ch.partner_state,
                                              secret, locksroot))
    ELSE IF Contains(ch.partner_state.locked, sha3(secret))
    THEN claimed(ch, "partner_state", "our_state",
                 ChannelEndState_claim_locked(ch.partner_state, ch.our_state,
                                              secret, locksroot))
    ELSE [ch |-> ch, err |-> "ValueError: The secret doesnt unlock any hashlock"]

(* The checks of register_transfer_from_to, in the order of the code. *)
asset_mismatch(ch, transfer) == transfer.asset # ch.asset_address

unknown_recipient(transfer, to_state) == transfer.recipient # to_state.address

unsigned_transfer(transfer, from_state) == transfer.sender # from_state.address

(* the check of the amount left out *)
negative_transfer_unchecked(transfer, from_state) == FALSE

negative_transfer(transfer, from_state) ==
    transfer.transfered_amount < from_state.transfered_amount

(* a nonce check that lets an older nonce through *)
invalid_nonce_accepts_older(transfer, from_state) ==
    transfer.nonce < 1 \/ transfer.nonce > from_state.nonce

invalid_nonce(transfer, from_state) ==
    transfer.nonce < 1 \/ transfer.nonce # from_state.nonce

(* a balance check that is off by one *)
insufficient_balance_off_by_one(amount, available) == amount > available + 1

insufficient_balance(amount, available) == amount > available

settle_window_ok(transfer, block_number) ==
    transfer.lock.expiration - block_number < settle_timeout

(* a reveal window that lets in an expiration just reveal_timeout away *)
reveal_window_ok_inclusive(transfer, block_number) ==
    transfer.lock.expiration - block_number >= reveal_timeout

reveal_window_ok(transfer, block_number) ==
    transfer.lock.expiration - block_number > reveal_timeout

(* The checks made of a LockedTransfer only, in the order of the code:    *)
(* locked_transfer_checks are those that follow the call of root_with on   *)
(* the receiving end's container, rw being what the call returned.  The    *)
(* log call of a locksroot mismatch reads (and caches) the root.           *)
locked_transfer_checks(ch, transfer, to, block_number, rw) ==
    IF rw.err # NoError
    THEN [ch |-> [ch EXCEPT ![to].locked = rw.ls], err |-> rw.err]
    ELSE IF rw.root # transfer.locksroot
    THEN [ch |-> [ch EXCEPT ![to].locked = root_cached(rw.ls)],
          err |-> "InvalidLocksRoot"]
    ELSE IF ~settle_window_ok(transfer, block_number)
    THEN [ch |-> [ch EXCEPT ![to].locked = rw.ls],
          err |-> "ValueError: Transfer expiration doesn't allow for corret settlement."]
    ELSE IF ~reveal_window_ok(transfer, block_number)
    THEN [ch |-> [ch EXCEPT ![to].locked = rw.ls],
          err |-> "ValueError: Expiration smaller than the minimum requried."]
    ELSE [ch |-> [ch EXCEPT ![to].locked = rw.ls], err |-> NoError]

check_locked_transfer(ch, transfer, from, to, block_number) ==
    IF insufficient_balance(transfer.transfered_amount - ch[from].transfered_amount
                                + transfer.lock.amount,
                            distributable(ch[from], ch[to]))
    THEN [ch |-> ch, err |-> "InsufficientBalance"]
    ELSE locked_transfer_checks(ch, transfer, to, block_number,
                                root_with(ch[to].locked, transfer.lock, NoLock))

(* The state changes of register_transfer_from_to, made once every check   *)
(* has passed: the lock is added and the channel registered for its        *)
(* hashlock (apply_lock), the secret of a DirectTransfer claims its lock   *)
(* (apply_secret), and the sending end's transfered_amount and nonce are   *)
(* set (apply_amount).  The closing log call reads (and caches) the        *)
(* receiving end's root.                                                   *)
(* the amount of the message added to the sender's instead of replacing it *)
apply_amount_accumulating(ch, transfer, from, to) ==
    [ch |-> [ch EXCEPT ![from].transfered_amount = @ + transfer.transfered_amount,
                       ![from].nonce = @ + 1,
                       ![to].locked = root_cached(@)],
     err |-> NoError]

apply_amount(ch, transfer, from, to) ==
    [ch |-> [ch EXCEPT ![from].transfered_amount = transfer.transfered_amount,
                       ![from].nonce = @ + 1,
                       ![to].locked = root_cached(@)],
     err |-> NoError]

apply_claim(ch, transfer, from, to, cl) ==
    IF cl.err # NoError
    THEN [ch |-> [ch EXCEPT ![to] = cl.self, ![from] = cl.partner], err |-> cl.err]
    ELSE apply_amount([ch EXCEPT ![to] = cl.self, ![from] = cl.partner],
                      transfer, from, to)

apply_secret(ch, transfer, from, to) ==
    IF IsDirectTransfer(transfer) /\ transfer.secret # NoSecret
    THEN apply_claim(ch, transfer, from, to,
                     ChannelEndState_claim_locked(ch[to], ch[from],
                                                  transfer.secret, transfer.locksroot))
    ELSE apply_amount(ch, transfer, from, to)

apply_lock(ch, transfer, from, to, added) ==
    IF added.err # NoError
    THEN [ch |-> ch, err |-> added.err]
    ELSE apply_secret([ch EXCEPT ![to].locked = added.ls,
                                 !.external_state =
                                     register_channel_for_hashlock(@, transfer.lock.hashlock)],
                      transfer, from, to)

apply_transfer(ch, transfer, from, to) ==
    IF IsLockedTransfer(transfer)
    THEN apply_lock(ch, transfer, from, to, add(ch[to].locked, transfer))
    ELSE apply_secret(ch, transfer, from, to)

apply_checked(checked, transfer, from, to) ==
    IF checked.err # NoError
    THEN checked
    ELSE apply_transfer(checked.ch, transfer, from, to)

(* Channel.register_transfer_from_to(transfer, from_state, to_state); from *)
(* and to name the two ends of ch.                                         *)
register_transfer_from_to(ch, transfer, from, to, block_number) ==
    IF asset_mismatch(ch, transfer)
    THEN [ch |-> ch, err |-> "ValueError: Asset address mismatch"]
    ELSE IF unknown_recipient(transfer, ch[to])
    THEN [ch |-> ch, err |-> "ValueError: Unknow recipient"]
    ELSE IF unsigned_transfer(transfer, ch[from])
    THEN [ch |-> ch, err |-> "ValueError: Unsigned transfer"]
    ELSE IF negative_transfer(transfer, ch[from])
    THEN [ch |-> ch, err |-> "ValueError: Negative transfer"]
    ELSE IF invalid_nonce(transfer, ch[from])
    THEN [ch |-> ch, err |-> "InvalidNonce"]
    ELSE IF insufficient_balance(transfer.transfered_amount - ch[from].transfered_amount,
                                 distributable(ch[from], ch[to]))
    THEN [ch |-> ch, err |-> "InsufficientBalance"]
    ELSE IF IsLockedTransfer(transfer)
    THEN apply_checked(check_locked_transfer(ch, transfer, from, to, block_number),
                       transfer, from, to)
    ELSE apply_transfer(ch, transfer, from, to)

(* The transfer is kept in the list of its direction once it is registered. *)
(* keep_transfer that appends the transfer whether or not it was accepted. *)
keep_transfer_unconditionally(r, list, transfer) ==
    [ch |-> [r.ch EXCEPT ![list] = Append(@, transfer)], err |-> r.err]

keep_transfer(r, list, transfer) ==
    IF r.err # NoError THEN r
    ELSE [ch |-> [r.ch EXCEPT ![list] = Append(@, transfer)], err |-> NoError]

(* register_transfer that validates the partner's transfers only          *)
register_transfer_trusting_own(ch, transfer, block_number) ==
    IF transfer.recipient = ch.partner_state.address
    THEN keep_transfer(apply_transfer(ch, transfer, "our_state", "partner_state"),
                       "sent_transfers", transfer)
    ELSE IF transfer.recipient = ch.our_state.address
    THEN keep_transfer(register_transfer_from_to(ch, transfer, "partner_state", "our_state",
                                                 block_number),
                       "received_transfers", transfer)
    ELSE [ch |-> ch, err |-> "ValueError: Invalid address"]

(* register_transfer that keeps each transfer in the list of the other     *)
(* direction                                                               *)
register_transfer_swapping_lists(ch, transfer, block_number) ==
    IF transfer.recipient = ch.partner_state.address
    THEN keep_transfer(register_transfer_from_to(ch, transfer, "our_state", "partner_state",
                                                 block_number),
                       "received_transfers", transfer)
    ELSE IF transfer.recipient = ch.our_state.address
    THEN keep_transfer(register_transfer_from_to(ch, transfer, "partner_state", "our_state",
                                                 block_number),
                       "sent_transfers", transfer)
    ELSE [ch |-> ch, err |-> "ValueError: Invalid address"]

(* Channel.register_transfer(transfer) *)
register_transfer(ch, transfer, block_number) ==
    IF transfer.recipient = ch.partner_state.address
    THEN keep_transfer(register_transfer_from_to(ch, transfer, "our_state", "partner_state",
                                                 block_number),
                       "sent_transfers", transfer)
    ELSE IF transfer.recipient = ch.our_state.address
    THEN keep_transfer(register_transfer_from_to(ch, transfer, "partner_state", "our_state",
                                                 block_number),
                       "received_transfers", transfer)
    ELSE [ch |-> ch, err |-> "ValueError: Invalid address"]

---------------------------------------------------------------------------
(* The message constructors of Channel.  Each returns the channel          *)
(* afterwards (reading a root can fill the cache, root_with works on the   *)
(* hash list), the exception, and the message built.  A message leaves     *)
(* its constructor unsigned; sign sets its sender.                         *)

sign(transfer, address) == [transfer EXCEPT !.sender = address]

insufficient_funds(amount, available) == amount <= 0 \/ amount > available

create_directtransfer(ch, amount, secret) ==
    IF ~isopen(ch.external_state)
    THEN [ch |-> ch, err |-> "ValueError: The channel is closed", transfer |-> NoTransfer]
    ELSE IF insufficient_funds(amount, distributable(ch.our_state, ch.partner_state))
    THEN [ch |-> ch, err |-> "ValueError: Insufficient funds", transfer |-> NoTransfer]
    ELSE [ch |-> [ch EXCEPT !.partner_state.locked = root_cached(@)],
          err |-> NoError,
          transfer |-> Transfer("DirectTransfer", ch.our_state.nonce, ch.asset_address,
                                ch.our_state.transfered_amount + amount,
                                ch.partner_state.address, "none",
                                root(ch.partner_state.locked), secret, NoLock)]

create_lockedtransfer(ch, amount, expiration, hashlock, block_number) ==
    IF ~isopen(ch.external_state)
    THEN [ch |-> ch, err |-> "ValueError: The channel is closed", transfer |-> NoTransfer]
    ELSE IF expiration - block_number >= settle_timeout
    THEN [ch |-> ch, err |-> "ValueError: Invalid expiration", transfer |-> NoTransfer]
    ELSE IF expiration - reveal_timeout < block_number
    THEN [ch |-> ch, err |-> "ValueError: Invalid expiration", transfer |-> NoTransfer]
    ELSE IF insufficient_funds(amount, distributable(ch.our_state, ch.partner_state))
    THEN [ch |-> ch, err |-> "ValueError: Insufficient funds", transfer |-> NoTransfer]
    ELSE
    LET lock == Lock(amount, expiration, hashlock)
        rw == root_with(ch.partner_state.locked, lock, NoLock)
    IN  [ch |-> [ch EXCEPT !.partner_state.locked = rw.ls],
         err |-> rw.err,
         transfer |-> IF rw.err # NoError THEN NoTransfer
                      ELSE Transfer("LockedTransfer", ch.our_state.nonce, ch.asset_address,
                                    ch.our_state.transfered_amount,
                                    ch.partner_state.address, "none",
                                    rw.root, NoSecret, lock)]

(* to_mediatedtransfer and to_refundtransfer copy the locked transfer into *)
(* the derived message; the routing fields they add are read by no code of *)
(* the channel.                                                            *)
create_mediatedtransfer(ch, amount, expiration, hashlock, block_number) ==
    LET r == create_lockedtransfer(ch, amount, expiration, hashlock, block_number)
    IN  IF r.err # NoError THEN r
        ELSE [r EXCEPT !.transfer.type = "MediatedTransfer"]

create_refundtransfer_for(ch, transfer, block_number) ==
    IF ~Contains(ch.our_state.locked, transfer.lock.hashlock)
    THEN [ch |-> ch, err |-> "ValueError: Unknow hashlock", transfer |-> NoTransfer]
    ELSE
    LET r == create_lockedtransfer(ch, transfer.lock.amount, transfer.lock.expiration,
                                   transfer.lock.hashlock, block_number)
    IN  IF r.err # NoError THEN r
        ELSE [r EXCEPT !.transfer.type = "RefundTransfer"]

create_timeouttransfer_for(ch, transfer) ==
    IF ~Contains(ch.our_state.locked, transfer.lock.hashlock)
    THEN [ch |-> ch, err |-> "ValueError: Unknow hashlock", transfer |-> NoTransfer]
    ELSE [ch |-> ch, err |-> NoError,
          transfer |-> Transfer("TransferTimeout", 0, "none", 0, "none", "none", NoRoot,
                                NoSecret, Lock(0, 0, transfer.lock.hashlock))]

---------------------------------------------------------------------------
(* Inputs.  The messages a node may be asked to register, in either        *)
(* direction: direct transfers with every combination of nonce (current or *)
(* previous), transferred amount, secret and locksroot; locked transfers   *)
(* with every lock and a right or wrong locksroot; and messages with a     *)
(* foreign asset, recipient or signer.                                     *)

Ends == {"our_state", "partner_state"}

EndOf(ch, address) == IF address = ch.our_state.address THEN "our_state" ELSE "partner_state"

TransferAmounts == 0 .. (MaxBalance + 1)

DirectRoots(ls, secret) ==
    {root(ls), EmptyRoot} \cup
    (IF secret # NoSecret /\ Contains(ls, sha3(secret))
        /\ InSeq(sha3_lock(ls.locked[sha3(secret)].lock), ls.cached_lock_hashes)
     THEN {merkleroot(RemoveFirst(ls.cached_lock_hashes,
                                  sha3_lock(ls.locked[sha3(secret)].lock)))}
     ELSE {})

LockedRoots(ls, lock) ==
    {merkleroot(Append(ls.cached_lock_hashes, sha3_lock(lock))), root(ls)}

DirectTransfers(ch, from) ==
    UNION {{Transfer("DirectTransfer", n, ch.asset_address, a, ch[Other(from)].address,
                     ch[from].address, r, s, NoLock) :
                n \in {ch[from].nonce - 1, ch[from].nonce}, a \in TransferAmounts,
                r \in DirectRoots(ch[Other(from)].locked, s)} :
           s \in {NoSecret} \cup Secrets}

LockedTransfersFrom(ch, from) ==
    UNION {{Transfer("LockedTransfer", ch[from].nonce, ch.asset_address, a,
                     ch[Other(from)].address, ch[from].address, r, NoSecret, l) :
                a \in {ch[from].transfered_amount, ch[from].transfered_amount + 1},
                r \in LockedRoots(ch[Other(from)].locked, l)} :
           l \in Locks}

WellAddressed(ch) ==
    UNION {DirectTransfers(ch, from) \cup LockedTransfersFrom(ch, from) : from \in Ends}

(* Messages that pass the checks made after those of the nonce: the base   *)
(* of the messages with one thing wrong in their header.                   *)
Plain(ch) ==
    {m \in WellAddressed(ch) :
        /\ m.nonce = ch[EndOf(ch, m.sender)].nonce
        /\ m.transfered_amount = ch[EndOf(ch, m.sender)].transfered_amount
        /\ m.secret = NoSecret
        /\ m.lock.amount = 0
        /\ m.locksroot # root(ch[EndOf(ch, m.recipient)].locked) \/ IsDirectTransfer(m)}

MisAddressed(ch) ==
    UNION {{[m EXCEPT !.asset = "other_asset"], [m EXCEPT !.recipient = "other"],
            [m EXCEPT !.sender = "other"], [m EXCEPT !.sender = m.recipient],
            [m EXCEPT !.nonce = @ - 1]} : m \in Plain(ch)}

Messages(ch) == WellAddressed(ch) \cup MisAddressed(ch)

(* The transfers create_refundtransfer_for and create_timeouttransfer_for  *)
(* are given: those held in our container, and one per hashlock that may   *)
(* not be.                                                                 *)
TransfersToAnswer(ch) ==
    {ch.our_state.locked.locked[h] : h \in Held(ch.our_state.locked)} \cup
    {Transfer("LockedTransfer", 1, ch.asset_address, 0, ch.our_state.address,
              ch.partner_state.address, EmptyRoot, NoSecret, Lock(1, 3, h)) :
        h \in Hashlocks}

Accepted(ch) == Len(ch.sent_transfers) + Len(ch.received_transfers)

---------------------------------------------------------------------------
(* One channel, seen from the local node. *)

Init ==
    /\ \E d1 \in {MaxBalance}, d2 \in {0} :
          /\ chan = Channel(ChannelEndState("our", d1), ChannelEndState("partner", d2),
                            ChannelExternalState(1, 0, 0), "asset")
          /\ chanB = Channel(ChannelEndState("partner", d2), ChannelEndState("our", d1),
                             ChannelExternalState(1, 0, 0), "asset")
    /\ block = 1
    /\ locks = LockedTransfers

RegisterTransfer ==
    \E m \in Messages(chan) :
        LET r == register_transfer(chan, m, block)
        IN  /\ r.err = NoError => Accepted(chan) < MaxTransfers
            /\ chan' = r.ch
            /\ UNCHANGED <<chanB, block, locks>>

ClaimLocked ==
    \E secret \in Secrets, locksroot \in {NoRoot, EmptyRoot} :
        LET r == Channel_claim_locked(chan, secret, locksroot)
        IN  /\ chan' = r.ch
            /\ UNCHANGED <<chanB, block, locks>>

UpdateContractBalance ==
    \E end \in Ends : \E v \in chan[end].contract_balance .. MaxBalance :
        /\ chan' = [chan EXCEPT ![end] = update_contract_balance(@, v)]
        /\ UNCHANGED <<chanB, block, locks>>

NextBlock ==
    /\ block < MaxBlock
    /\ block' = block + 1
    /\ UNCHANGED <<chan, chanB, locks>>

CreateDirectTransfer ==
    \E amount \in TransferAmounts, secret \in {NoSecret} \cup Secrets :
        LET r == create_directtransfer(chan, amount, secret)
        IN  /\ chan' = r.ch
            /\ UNCHANGED <<chanB, block, locks>>

CreateLockedTransfer ==
    \E l \in Locks :
        LET r == create_lockedtransfer(chan, l.amount, l.expiration, l.hashlock, block)
        IN  /\ chan' = r.ch
            /\ UNCHANGED <<chanB, block, locks>>

CreateMediatedTransfer ==
    \E l \in Locks :
        LET r == create_mediatedtransfer(chan, l.amount, l.expiration, l.hashlock, block)
        IN  /\ chan' = r.ch
            /\ UNCHANGED <<chanB, block, locks>>

CreateRefundTransferFor ==
    \E t \in TransfersToAnswer(chan) :
        LET r == create_refundtransfer_for(chan, t, block)
        IN  /\ chan' = r.ch
            /\ UNCHANGED <<chanB, block, locks>>

CreateTimeoutTransferFor ==
    \E t \in TransfersToAnswer(chan) :
        LET r == create_timeouttransfer_for(chan, t)
        IN  /\ chan' = r.ch
            /\ UNCHANGED <<chanB, block, locks>>

Next ==
    \/ RegisterTransfer
    \/ ClaimLocked
    \/ UpdateContractBalance
    \/ NextBlock
    \/ CreateDirectTransfer
    \/ CreateLockedTransfer
    \/ CreateMediatedTransfer
    \/ CreateRefundTransferFor
    \/ CreateTimeoutTransferFor

Spec == Init /\ [][Next]_vars

---------------------------------------------------------------------------
(* A LockedTransfers container used on its own, through its methods. *)

LockSetLocks == {l \in Locks : l.expiration = 3}

LockArguments == LockSetLocks \cup {NoLock}

LockedTransferOf(lock) ==
    Transfer("LockedTransfer", 1, "asset", 0, "our", "partner", EmptyRoot, NoSecret, lock)

LockSetAdd ==
    \E l \in LockSetLocks :
        /\ Len(locks.cached_lock_hashes) < MaxHashes
        /\ locks' = add(locks, LockedTransferOf(l)).ls
        /\ UNCHANGED <<chan, chanB, block>>

LockSetRemove ==
    \E h \in Hashlocks :
        /\ locks' = remove(locks, h).ls
        /\ UNCHANGED <<chan, chanB, block>>

LockSetRoot ==
    /\ locks' = root_cached(locks)
    /\ UNCHANGED <<chan, chanB, block>>

LockSetRootWith ==
    \E lock \in LockArguments, exclude \in LockArguments :
        LET r == root_with(locks, lock, exclude)
        IN  /\ Len(r.ls.cached_lock_hashes) <= MaxHashes
            /\ locks' = r.ls
            /\ UNCHANGED <<chan, chanB, block>>

NextLockSet ==
    \/ LockSetAdd
    \/ LockSetRemove
    \/ LockSetRoot
    \/ LockSetRootWith

SpecLockSet == Init /\ [][NextLockSet]_vars

---------------------------------------------------------------------------
(* The two nodes of one channel: chan is the channel object of node "our", *)
(* chanB the channel object of node "partner" for the same channel.  The   *)
(* nodes exchange messages and secrets: a transfer both accept is          *)
(* registered on both, a secret is claimed on both.  Each node learns of   *)
(* a deposit on its own.                                                   *)

SyncRegisterTransfer ==
    \E m \in WellAddressed(chan) :
        LET rA == register_transfer(chan, m, block)
            rB == register_transfer(chanB, m, block)
        IN  /\ rA.err = NoError
            /\ rB.err = NoError
            /\ Accepted(chan) < MaxTransfers
            /\ chan' = rA.ch
            /\ chanB' = rB.ch
            /\ UNCHANGED <<block, locks>>

SyncClaimLocked ==
    \E secret \in Secrets :
        LET rA == Channel_claim_locked(chan, secret, NoRoot)
            rB == Channel_claim_locked(chanB, secret, NoRoot)
        IN  /\ rA.err = NoError
            /\ rB.err = NoError
            /\ chan' = rA.ch
            /\ chanB' = rB.ch
            /\ UNCHANGED <<block, locks>>

UpdateContractBalanceA ==
    \E end \in Ends : \E v \in (chan[end].contract_balance + 1) .. MaxBalance :
        /\ chan' = [chan EXCEPT ![end] = update_contract_balance(@, v)]
        /\ UNCHANGED <<chanB, block, locks>>

UpdateContractBalanceB ==
    \E end \in Ends : \E v \in (chanB[end].contract_balance + 1) .. MaxBalance :
        /\ chanB' = [chanB EXCEPT ![end] = update_contract_balance(@, v)]
        /\ UNCHANGED <<chan, block, locks>>

NextSync ==
    \/ SyncRegisterTransfer
    \/ SyncClaimLocked
    \/ UpdateContractBalanceA
    \/ UpdateContractBalanceB
    \/ NextBlock

SpecSync == Init /\ [][NextSync]_vars

(* The end of a participant in either channel object, and what the two     *)
(* objects must agree on to be synchronized.                               *)
EndAt(ch, address) == ch[EndOf(ch, address)]

Addresses == {"our", "partner"}

SyncView(end_state) ==
    [transfered_amount |-> end_state.transfered_amount,
     nonce |-> end_state.nonce,
     root |-> root(end_state.locked),
     outstanding |-> outstanding(end_state.locked)]

Synchronized(chA, chB) ==
    \A a \in Addresses : SyncView(EndAt(chA, a)) = SyncView(EndAt(chB, a))

SameDeposits(chA, chB) ==
    \A a \in Addresses : EndAt(chA, a).contract_balance = EndAt(chB, a).contract_balance

---------------------------------------------------------------------------
(* What the claims say of a call of register_transfer: the end that       *)
(* receives a message, the end that sends it, and the state the claims     *)
(* call the channel state (the root cache and the chain's hashlock         *)
(* registry are not part of it).                                           *)
ToEnd(ch, m) == IF m.recipient = ch.partner_state.address THEN "partner_state" ELSE "our_state"

FromEnd(ch, m) == Other(ToEnd(ch, m))

EndView(end_state) ==
    [transfered_amount |-> end_state.transfered_amount,
     nonce |-> end_state.nonce,
     contract_balance |-> end_state.contract_balance,
     locked |-> end_state.locked.locked,
     lock_hashes |-> end_state.locked.cached_lock_hashes]

ChannelView(ch) ==
    [our_state |-> EndView(ch.our_state),
     partner_state |-> EndView(ch.partner_state),
     sent_transfers |-> ch.sent_transfers,
     received_transfers |-> ch.received_transfers]

SentList(end) == IF end = "our_state" THEN "sent_transfers" ELSE "received_transfers"

(* A step in which the channel accepted a transfer from `end`: the list of *)
(* that direction grew by the message.                                     *)
AcceptedFrom(end) == Len(chan'[SentList(end)]) = Len(chan[SentList(end)]) + 1

AcceptedMessage(end) == chan'[SentList(end)][Len(chan'[SentList(end)])]

---------------------------------------------------------------------------
(* C1: whenever register_transfer rejects a message, the channel state is  *)
(* the state before the call: both ends' transfered_amount, nonce and      *)
(* contract_balance, both containers (mapping and ordered hash list) and   *)
(* the lists of sent and received transfers.                               *)
C1_RejectedTransferLeavesStateUnchanged ==
    \A m \in Messages(chan) :
        LET r == register_transfer(chan, m, block)
        IN  r.err # NoError => ChannelView(r.ch) = ChannelView(chan)

---------------------------------------------------------------------------
(* C2: each nonce starts at 1; a transfer from an end is accepted only     *)
(* with the nonce of that end, which is at least 1; each accepted transfer *)
(* raises that nonce by exactly 1; and no other step changes a nonce.      *)
C2_NonceStep ==
    \A end \in Ends :
        IF AcceptedFrom(end)
        THEN /\ AcceptedMessage(end).nonce = chan[end].nonce
             /\ AcceptedMessage(end).nonce >= 1
             /\ chan'[end].nonce = chan[end].nonce + 1
        ELSE chan'[end].nonce = chan[end].nonce

C2_NonceSequencing ==
    /\ \A end \in Ends : chan[end].nonce = 1
    /\ [][C2_NonceStep]_vars

C2_Witness ==
    /\ chan.our_state.nonce = 2
    /\ chan.partner_state.nonce = 2

---------------------------------------------------------------------------
(* C5: in every reachable state both parties have                          *)
(* 0 <= distributable <= balance.                                          *)
C5_DistributableWithinBalance ==
    \A end \in Ends :
        /\ 0 <= distributable(chan[end], chan[Other(end)])
        /\ distributable(chan[end], chan[Other(end)]) <= balance(chan[end], chan[Other(end)])

(* After a top-up, a transfer and a lock: our funds are all locked. *)
C5_Witness ==
    /\ chan.partner_state.contract_balance > 0
    /\ chan.partner_state.transfered_amount > 0
    /\ outstanding(chan.partner_state.locked) > 0
    /\ distributable(chan.our_state, chan.partner_state) = 0
    /\ balance(chan.our_state, chan.partner_state) > 0

---------------------------------------------------------------------------
(* C6: right after register_transfer accepts a LockedTransfer to X,        *)
(* X.locked.root is the message's locksroot; and a LockedTransfer whose    *)
(* locksroot is not X.locked.root_with(lock) is rejected, with             *)
(* InvalidLocksRoot once the checks made before that one have passed.      *)
PassesChecksBeforeLocksroot(ch, m) ==
    LET from_state == ch[FromEnd(ch, m)]
        to_state == ch[ToEnd(ch, m)]
        amount == m.transfered_amount - from_state.transfered_amount
    IN  /\ m.recipient = to_state.address
        /\ ~asset_mismatch(ch, m)
        /\ ~unsigned_transfer(m, from_state)
        /\ ~negative_transfer(m, from_state)
        /\ ~invalid_nonce(m, from_state)
        /\ amount + m.lock.amount <= distributable(from_state, to_state)

C6_AcceptedLockedTransferCommitsRoot ==
    \A m \in {x \in Messages(chan) : IsLockedTransfer(x)} :
        LET r == register_transfer(chan, m, block)
            expected == root_with(chan[ToEnd(chan, m)].locked, m.lock, NoLock).root
        IN  /\ r.err = NoError => root(r.ch[ToEnd(chan, m)].locked) = m.locksroot
            /\ m.locksroot # expected => r.err # NoError
            /\ m.locksroot # expected /\ PassesChecksBeforeLocksroot(chan, m)
                   => r.err = "InvalidLocksRoot"

(* A second lock has been accepted into our container, and a locked        *)
(* transfer with a wrong locksroot is at hand.                             *)
C6_Witness ==
    /\ Len(chan.our_state.locked.cached_lock_hashes) = 2
    /\ Len(chan.received_transfers) = 2
    /\ root(chan.our_state.locked) = chan.received_transfers[2].locksroot
    /\ \E m \in Messages(chan) :
          /\ IsLockedTransfer(m)
          /\ PassesChecksBeforeLocksroot(chan, m)
          /\ register_transfer(chan, m, block).err = "InvalidLocksRoot"

---------------------------------------------------------------------------
(* C7: for every DirectTransfer register_transfer accepts, with or without *)
(* a secret, the message's locksroot is the root of the receiving end's    *)
(* container in the state after.                                           *)
C7_AcceptedDirectTransferCommitsRoot ==
    \A m \in {x \in Messages(chan) : IsDirectTransfer(x)} :
        LET r == register_transfer(chan, m, block)
        IN  r.err = NoError => root(r.ch[ToEnd(chan, m)].locked) = m.locksroot

---------------------------------------------------------------------------
(* C8: in every reachable state no hashlock is in both our container and   *)
(* the partner's.                                                          *)
InBoth(ch, h) == Contains(ch.our_state.locked, h) /\ Contains(ch.partner_state.locked, h)

C8_NoHashlockInBothContainers == \A h \in Hashlocks : ~InBoth(chan, h)

(* C8 as amended: a hashlock comes to be in both containers only by the    *)
(* registration of a locked transfer whose hashlock the sending end holds  *)
(* at that moment (a refund transfer is one); no constructor call, direct  *)
(* transfer or claim puts a hashlock in both.                              *)
C8_OnlyMirroredLockStep ==
    \A h \in Hashlocks :
        InBoth(chan', h) /\ ~InBoth(chan, h) =>
            \E end \in Ends :
                /\ AcceptedFrom(end)
                /\ IsLockedTransfer(AcceptedMessage(end))
                /\ AcceptedMessage(end).lock.hashlock = h
                /\ Contains(chan[end].locked, h)
                /\ ~Contains(chan[Other(end)].locked, h)

C8_OnlyMirroredLocksAreInBoth == [][C8_OnlyMirroredLockStep]_vars

C8_Witness == \E h \in Hashlocks : InBoth(chan, h)

---------------------------------------------------------------------------
(* C9: a message create_directtransfer (without a secret, or with the      *)
(* secret of a lock the partner holds) or create_lockedtransfer returns,   *)
(* signed and passed to register_transfer on the same channel with nothing *)
(* in between, raises no error and raises our nonce by exactly 1.          *)
RegistersCleanly(built) ==
    built.err = NoError =>
        LET r == register_transfer(built.ch, sign(built.transfer, chan.our_state.address), block)
        IN  /\ r.err = NoError
            /\ r.ch.our_state.nonce = chan.our_state.nonce + 1

C9_BuiltMessageRegisters ==
    /\ \A amount \in TransferAmounts :
       \A secret \in {NoSecret} \cup {s \in Secrets : Contains(chan.partner_state.locked, sha3(s))} :
           RegistersCleanly(create_directtransfer(chan, amount, secret))
    /\ \A l \in Locks :
           RegistersCleanly(create_lockedtransfer(chan, l.amount, l.expiration, l.hashlock, block))

---------------------------------------------------------------------------
(* C10: root_with leaves the container as it found it, on every exit path, *)
(* normal or error: the mapping and the ordered hash list after the call   *)
(* equal those before it, for any lock to include and any lock to exclude. *)
C10_RootWithLeavesContainerUnchanged ==
    \A lock \in LockArguments, exclude \in LockArguments :
        LET r == root_with(locks, lock, exclude)
        IN  /\ r.ls.locked = locks.locked
            /\ r.ls.cached_lock_hashes = locks.cached_lock_hashes

(* The same of the calls that return: the reordering needs no error. *)
C10_ReturningRootWithLeavesContainerUnchanged ==
    \A lock \in LockArguments, exclude \in LockArguments :
        LET r == root_with(locks, lock, exclude)
        IN  r.err = NoError => r.ls.cached_lock_hashes = locks.cached_lock_hashes



---------------------------------------------------------------------------
(* C3: the two channel objects of a channel stay synchronized (equal       *)
(* transfered_amount, nonce, container root and outstanding amount on the  *)
(* mirrored ends) as long as every accepted transfer is registered on both *)
(* and every secret is claimed on both.                                    *)
C3_MirroredChannelsStaySynchronized == Synchronized(chan, chanB)

---------------------------------------------------------------------------
(* C4: if the two channel objects are synchronized and node "our" accepts  *)
(* a transfer of its own at its block, node "partner" accepts it at every  *)
(* block from that one on.                                                 *)
Outbound(ch) == {m \in Messages(ch) : m.sender = ch.our_state.address}

LaterBlocks == block .. (MaxBlock + 1)

---------------------------------------------------------------------------
(* C11: root_with returns the root the container has after the change it   *)
(* anticipates: for a lock whose hashlock is not in the container,         *)
(* root_with(lock) is root after add; for a lock in the container,         *)
(* root_with(exclude=lock) is root after remove(lock.hashlock).            *)
C11_RootWithPredictsRoot ==
    /\ \A l \in LockSetLocks :
           ~Contains(locks, l.hashlock) =>
               /\ root_with(locks, l, NoLock).err = NoError
               /\ add(locks, LockedTransferOf(l)).err = NoError
               /\ root_with(locks, l, NoLock).root = root(add(locks, LockedTransferOf(l)).ls)
    /\ \A h \in Held(locks) :
           /\ root_with(locks, NoLock, locks.locked[h].lock).err = NoError
           /\ remove(locks, h).err = NoError
           /\ root_with(locks, NoLock, locks.locked[h].lock).root = root(remove(locks, h).ls)

(* A container with a cached root, two hashes, one lock in it and one not. *)
C11_Witness ==
    /\ Len(locks.cached_lock_hashes) >= 2
    /\ locks.cached_root # NoRoot
    /\ Held(locks) # {}
    /\ Held(locks) # Hashlocks

---------------------------------------------------------------------------
(* C12: for every lock held in the container, in every state reached       *)
(* through add, remove, root and root_with, get_proof returns a sibling    *)
(* chain that verifies the hash of the lock against what root() returns.   *)
C12_ProofVerifiesAgainstRoot ==
    \A h \in Held(locks) :
        /\ get_proof(locks, locks.locked[h]).err = NoError
        /\ check_proof(get_proof(locks, locks.locked[h]).proof,
                       root(locks),
                       sha3_lock(locks.locked[h].lock))

(* The same with the root computed afresh from the hash list. *)
C12_ProofVerifiesAgainstFreshRoot ==
    \A h \in Held(locks) :
        /\ get_proof(locks, locks.locked[h]).err = NoError
        /\ check_proof(get_proof(locks, locks.locked[h]).proof,
                       merkleroot(locks.cached_lock_hashes),
                       sha3_lock(locks.locked[h].lock))

---------------------------------------------------------------------------
(* C13: the transfered_amount of neither end ever decreases in a step      *)
(* (register_transfer and claim_locked included), and a transfer carrying  *)
(* a transfered_amount lower than the current one of its sender is         *)
(* rejected with 'Negative transfer', the channel being left as it was.    *)
LowersAmount(m) ==
    /\ ~asset_mismatch(chan, m)
    /\ m.recipient = chan[ToEnd(chan, m)].address
    /\ ~unsigned_transfer(m, chan[FromEnd(chan, m)])
    /\ m.transfered_amount < chan[FromEnd(chan, m)].transfered_amount

C13_LowerAmountRejected ==
    \A m \in Messages(chan) :
        LowersAmount(m) =>
            /\ register_transfer(chan, m, block).err = "ValueError: Negative transfer"
            /\ register_transfer(chan, m, block).ch = chan

C13_AmountStep ==
    \A end \in Ends : chan'[end].transfered_amount >= chan[end].transfered_amount

---------------------------------------------------------------------------
(* C14: in every reachable state the balances of the two ends add up to    *)
(* the sum of their contract balances.                                     *)
C14_BalancesAddUpToDeposits ==
    balance(chan.our_state, chan.partner_state)
        + balance(chan.partner_state, chan.our_state)
    = chan.our_state.contract_balance + chan.partner_state.contract_balance

(* Value has moved: an end holds more than it deposited. *)
C14_Witness ==
    /\ chan.our_state.transfered_amount > 0
    /\ balance(chan.partner_state, chan.our_state) > chan.partner_state.contract_balance

---------------------------------------------------------------------------
(* The exceptions raised as ValueError, and the class of an exception. *)
ValueErrors ==
    {"ValueError", "ValueError: Asset address mismatch", "ValueError: Unknow recipient",
     "ValueError: Unsigned transfer", "ValueError: Negative transfer",
     "ValueError: Invalid address",
     "ValueError: Transfer expiration doesn't allow for corret settlement.",
     "ValueError: Expiration smaller than the minimum requried."}

exception_class(err) == IF err \in ValueErrors THEN "ValueError" ELSE err

OutsideLockTime(m) ==
    ~settle_window_ok(m, block) \/ ~reveal_window_ok(m, block)

CommitsOtherRoot(ch, m) ==
    /\ root_with(ch[ToEnd(ch, m)].locked, m.lock, NoLock).err = NoError
    /\ root_with(ch[ToEnd(ch, m)].locked, m.lock, NoLock).root # m.locksroot

(* C15: register_transfer_from_to reports the first failing check, the     *)
(* two lock-time windows coming before the locksroot: a LockedTransfer     *)
(* that passes the header, nonce and balance checks and violates a         *)
(* lock-time window is rejected with an InvalidLockTime, whether or not    *)
(* its locksroot is right, and not with the kind of an address mismatch.   *)
C15_LockTimeReportedFirst ==
    \A m \in {x \in Messages(chan) : IsLockedTransfer(x)} :
        PassesChecksBeforeLocksroot(chan, m) /\ OutsideLockTime(m) =>
            exception_class(register_transfer(chan, m, block).err) = "InvalidLockTime"

(* The order alone: with a window and the locksroot both violated the      *)
(* error is not the one of the locksroot.                                  *)
C15_LockTimeBeforeLocksroot ==
    \A m \in {x \in Messages(chan) : IsLockedTransfer(x)} :
        PassesChecksBeforeLocksroot(chan, m) /\ OutsideLockTime(m)
            /\ CommitsOtherRoot(chan, m) =>
            register_transfer(chan, m, block).err # "InvalidLocksRoot"

(* The kind alone: with the right locksroot a window violation is not      *)
(* reported with the class of the address mismatches.                      *)
C15_LockTimeIsItsOwnKind ==
    \A m \in {x \in Messages(chan) : IsLockedTransfer(x)} :
        PassesChecksBeforeLocksroot(chan, m) /\ OutsideLockTime(m)
            /\ ~CommitsOtherRoot(chan, m) =>
            exception_class(register_transfer(chan, m, block).err) # "ValueError"

(* What the code does: the locksroot is checked first, and a window        *)
(* violation is a ValueError.                                              *)
C15_CodeOrder ==
    \A m \in {x \in Messages(chan) : IsLockedTransfer(x)} :
        PassesChecksBeforeLocksroot(chan, m) /\ OutsideLockTime(m) =>
            register_transfer(chan, m, block).err =
                IF root_with(chan[ToEnd(chan, m)].locked, m.lock, NoLock).err # NoError
                THEN root_with(chan[ToEnd(chan, m)].locked, m.lock, NoLock).err
                ELSE IF CommitsOtherRoot(chan, m) THEN "InvalidLocksRoot"
                ELSE IF ~settle_window_ok(m, block)
                THEN "ValueError: Transfer expiration doesn't allow for corret settlement."
                ELSE "ValueError: Expiration smaller than the minimum requried."

---------------------------------------------------------------------------
InLockTimeWindow(m) ==
    /\ reveal_timeout < m.lock.expiration - block
    /\ m.lock.expiration - block < settle_timeout

LockSetView(ch) ==
    [end \in Ends |-> [locked |-> ch[end].locked.locked,
                       hashes |-> {ch[end].locked.cached_lock_hashes[i] :
                                      i \in 1 .. Len(ch[end].locked.cached_lock_hashes)},
                       size |-> Len(ch[end].locked.cached_lock_hashes)]]

(* C16: every LockedTransfer that register_transfer accepts at block b has *)
(* reveal_timeout < lock.expiration - b < settle_timeout, and one outside  *)
(* the window is refused without its lock being added to either lock set.  *)
C16_AcceptedLockWithinWindow ==
    \A m \in {x \in Messages(chan) : IsLockedTransfer(x)} :
        /\ register_transfer(chan, m, block).err = NoError => InLockTimeWindow(m)
        /\ ~InLockTimeWindow(m) =>
               /\ register_transfer(chan, m, block).err # NoError
               /\ LockSetView(register_transfer(chan, m, block).ch) = LockSetView(chan)

(* A lock has been accepted, and a transfer with everything right but an   *)
(* expiration exactly reveal_timeout away is being refused.                *)
C16_Witness ==
    /\ Held(chan.partner_state.locked) # {}
    /\ \E m \in {x \in Messages(chan) : IsLockedTransfer(x)} :
           /\ PassesChecksBeforeLocksroot(chan, m)
           /\ ~CommitsOtherRoot(chan, m)
           /\ m.lock.expiration - block = reveal_timeout
           /\ register_transfer(chan, m, block).err
                  = "ValueError: Expiration smaller than the minimum requried."

---------------------------------------------------------------------------
(* A channel object built over a netting channel in any of its states: not *)
(* yet opened, open, or closed.  ChannelExternalState reads opened_block,  *)
(* closed_block and settled_block when it is constructed.                  *)

MaxExternalTransfers == 1

ExternalStates ==
    {ChannelExternalState(0, 0, 0), ChannelExternalState(1, 0, 0),
     ChannelExternalState(1, 1, 0)}

InitExternal ==
    /\ \E e \in ExternalStates :
          /\ chan = Channel(ChannelEndState("our", MaxBalance), ChannelEndState("partner", 0),
                            e, "asset")
          /\ chanB = Channel(ChannelEndState("partner", 0), ChannelEndState("our", MaxBalance),
                             e, "asset")
    /\ block = 1
    /\ locks = LockedTransfers

RegisterTransferExternal ==
    \E m \in Messages(chan) :
        /\ register_transfer(chan, m, block).err = NoError
               => Accepted(chan) < MaxExternalTransfers
        /\ chan' = register_transfer(chan, m, block).ch
        /\ UNCHANGED <<chanB, block, locks>>

NextExternal ==
    \/ RegisterTransferExternal
    \/ ClaimLocked
    \/ UpdateContractBalance
    \/ NextBlock
    \/ CreateDirectTransfer
    \/ CreateLockedTransfer
    \/ CreateMediatedTransfer
    \/ CreateRefundTransferFor
    \/ CreateTimeoutTransferFor

SpecExternal == InitExternal /\ [][NextExternal]_vars

ChannelClosed == "ValueError: The channel is closed"

Refuses(built) == built.err = ChannelClosed /\ built.transfer = NoTransfer

(* C17: whenever the channel is not open, each of the five constructors    *)
(* fails with the channel-closed error and returns no message.             *)
C17_ConstructorsRefuseWhenNotOpen ==
    ~isopen(chan.external_state) =>
        /\ \A amount \in TransferAmounts, secret \in {NoSecret} \cup Secrets :
               Refuses(create_directtransfer(chan, amount, secret))
        /\ \A l \in Locks :
               /\ Refuses(create_lockedtransfer(chan, l.amount, l.expiration, l.hashlock, block))
               /\ Refuses(create_mediatedtransfer(chan, l.amount, l.expiration, l.hashlock, block))
        /\ \A t \in TransfersToAnswer(chan) :
               /\ Refuses(create_refundtransfer_for(chan, t, block))
               /\ Refuses(create_timeouttransfer_for(chan, t))

(* The part that holds: create_directtransfer, create_lockedtransfer and   *)
(* create_mediatedtransfer refuse with the channel-closed error, and       *)
(* create_refundtransfer_for returns no message.                           *)
C17_CheckedConstructorsRefuseWhenNotOpen ==
    ~isopen(chan.external_state) =>
        /\ \A amount \in TransferAmounts, secret \in {NoSecret} \cup Secrets :
               Refuses(create_directtransfer(chan, amount, secret))
        /\ \A l \in Locks :
               /\ Refuses(create_lockedtransfer(chan, l.amount, l.expiration, l.hashlock, block))
               /\ Refuses(create_mediatedtransfer(chan, l.amount, l.expiration, l.hashlock, block))
        /\ \A t \in TransfersToAnswer(chan) :
               /\ create_refundtransfer_for(chan, t, block).transfer = NoTransfer
               /\ Contains(chan.our_state.locked, t.lock.hashlock)
                      => Refuses(create_refundtransfer_for(chan, t, block))

(* create_timeouttransfer_for alone: no message when the channel is not    *)
(* open.                                                                   *)
C17_NoTimeoutTransferWhenNotOpen ==
    ~isopen(chan.external_state) =>
        \A t \in TransfersToAnswer(chan) :
            create_timeouttransfer_for(chan, t).transfer = NoTransfer

---------------------------------------------------------------------------
(* C18: while the channel is not open, register_transfer refuses every     *)
(* transfer and leaves the nonces, the transfered amounts and both lock    *)
(* sets as they were.                                                      *)
C18_NoRegistrationWhenNotOpen ==
    ~isopen(chan.external_state) =>
        \A m \in Messages(chan) :
            /\ register_transfer(chan, m, block).err # NoError
            /\ ChannelView(register_transfer(chan, m, block).ch) = ChannelView(chan)

---------------------------------------------------------------------------
(* What register_transfer is to do with a message validated as going from  *)
(* one end to the other: the outcome of the validation, and the message    *)
(* appended to the list of its direction only when it was accepted.        *)
RoutedAs(r, validated, list, m) ==
    /\ r.err = validated.err
    /\ r.ch.our_state = validated.ch.our_state
    /\ r.ch.partner_state = validated.ch.partner_state
    /\ r.ch[list] = IF r.err = NoError THEN Append(chan[list], m) ELSE chan[list]
    /\ \A other \in {"sent_transfers", "received_transfers"} \ {list} :
           r.ch[other] = chan[other]

(* C19: register_transfer routes by recipient.  A message for the partner  *)
(* is validated from our end to the partner's and appended to              *)
(* sent_transfers only if accepted; a message for us is validated from the *)
(* partner's end to ours and appended to received_transfers only if        *)
(* accepted; a message for anyone else is rejected with 'Invalid address'  *)
(* and nothing changes.                                                    *)
C19_RoutedByRecipient ==
    \A m \in Messages(chan) :
        IF m.recipient = chan.partner_state.address
        THEN RoutedAs(register_transfer(chan, m, block),
                      register_transfer_from_to(chan, m, "our_state", "partner_state", block),
                      "sent_transfers", m)
        ELSE IF m.recipient = chan.our_state.address
        THEN RoutedAs(register_transfer(chan, m, block),
                      register_transfer_from_to(chan, m, "partner_state", "our_state", block),
                      "received_transfers", m)
        ELSE /\ register_transfer(chan, m, block).err = "ValueError: Invalid address"
             /\ register_transfer(chan, m, block).ch = chan

(* A transfer has been accepted in each direction, and messages for the    *)
(* partner, for us and for a third party are at hand.                      *)
C19_Witness ==
    /\ Len(chan.sent_transfers) > 0
    /\ Len(chan.received_transfers) > 0
    /\ \E m \in Messages(chan) : m.recipient = chan.partner_state.address
    /\ \E m \in Messages(chan) : m.recipient = chan.our_state.address
    /\ \E m \in Messages(chan) :
           /\ m.recipient \notin {chan.our_state.address, chan.partner_state.address}
           /\ register_transfer(chan, m, block).err = "ValueError: Invalid address"

---------------------------------------------------------------------------
(* The locksroots a caller may hand to claim_locked: none, the root of no  *)
(* locks, the current root and the root without the claimed lock.          *)
ClaimRoots(ls, secret) == {NoRoot} \cup DirectRoots(ls, secret)

RootWithout(ls, secret) ==
    merkleroot(RemoveFirst(ls.cached_lock_hashes, sha3_lock(ls.locked[sha3(secret)].lock)))

ClaimFailed(r) == r.err \in {"InvalidSecret", "InvalidLocksRoot"}

(* C20: ChannelEndState.claim_locked fails with InvalidSecret when the     *)
(* hash of the secret is not in the end's container, and with              *)
(* InvalidLocksRoot when a locksroot is given that is not the root without *)
(* the claimed lock; after either failure the partner's transfered_amount  *)
(* and the container (mapping and ordered hash list) are as before.        *)
C20_FailedClaimLeavesStateUnchanged ==
    \A end \in Ends, secret \in Secrets :
        \A locksroot \in ClaimRoots(chan[end].locked, secret) :
            /\ ~Contains(chan[end].locked, sha3(secret)) =>
                   ChannelEndState_claim_locked(chan[end], chan[Other(end)],
                                                secret, locksroot).err = "InvalidSecret"
            /\ (/\ Contains(chan[end].locked, sha3(secret))
                /\ locksroot # NoRoot
                /\ locksroot # RootWithout(chan[end].locked, secret)) =>
                   ChannelEndState_claim_locked(chan[end], chan[Other(end)],
                                                secret, locksroot).err = "InvalidLocksRoot"
            /\ ClaimFailed(ChannelEndState_claim_locked(chan[end], chan[Other(end)],
                                                        secret, locksroot)) =>
                   /\ ChannelEndState_claim_locked(chan[end], chan[Other(end)], secret,
                                                   locksroot).partner.transfered_amount
                          = chan[Other(end)].transfered_amount
                   /\ ChannelEndState_claim_locked(chan[end], chan[Other(end)], secret,
                                                   locksroot).self.locked.locked
                          = chan[end].locked.locked
                   /\ ChannelEndState_claim_locked(chan[end], chan[Other(end)], secret,
                                                   locksroot).self.locked.cached_lock_hashes
                          = chan[end].locked.cached_lock_hashes

(* The same without the order of the hash list: the errors are as          *)
(* claimed, and a failed claim keeps the partner's transfered_amount, the  *)
(* mapping and the length of the hash list.                                *)
C20_FailedClaimKeepsAmountAndLocks ==
    \A end \in Ends, secret \in Secrets :
        \A locksroot \in ClaimRoots(chan[end].locked, secret) :
            /\ ~Contains(chan[end].locked, sha3(secret)) =>
                   ChannelEndState_claim_locked(chan[end], chan[Other(end)],
                                                secret, locksroot).err = "InvalidSecret"
            /\ (/\ Contains(chan[end].locked, sha3(secret))
                /\ locksroot # NoRoot
                /\ locksroot # RootWithout(chan[end].locked, secret)) =>
                   ChannelEndState_claim_locked(chan[end], chan[Other(end)],
                                                secret, locksroot).err = "InvalidLocksRoot"
            /\ ClaimFailed(ChannelEndState_claim_locked(chan[end], chan[Other(end)],
                                                        secret, locksroot)) =>
                   /\ ChannelEndState_claim_locked(chan[end], chan[Other(end)], secret,
                                                   locksroot).partner.transfered_amount
                          = chan[Other(end)].transfered_amount
                   /\ ChannelEndState_claim_locked(chan[end], chan[Other(end)], secret,
                                                   locksroot).self.locked.locked
                          = chan[end].locked.locked
                   /\ Len(ChannelEndState_claim_locked(chan[end], chan[Other(end)], secret,
                                                       locksroot).self.locked.cached_lock_hashes)
                          = Len(chan[end].locked.cached_lock_hashes)

---------------------------------------------------------------------------
ClaimedAmount(ch, end, secret) == ch[end].locked.locked[sha3(secret)].lock.amount

(* What a claim on the side of `end` does: the other end's              *)
(* transfered_amount grows by the amount of the lock and the hashlock   *)
(* leaves the container of `end`.                                       *)
ClaimedOn(r, end, secret) ==
    /\ r.err = NoError
    /\ r.ch[Other(end)].transfered_amount
           = chan[Other(end)].transfered_amount + ClaimedAmount(chan, end, secret)
    /\ ~Contains(r.ch[end].locked, sha3(secret))
    /\ r.ch[end].transfered_amount = chan[end].transfered_amount
    /\ r.ch[Other(end)].locked = chan[Other(end)].locked

(* C21: Channel.claim_locked(secret) claims on our side when the hash of   *)
(* the secret is in our container, otherwise on the partner's side when it *)
(* is in the partner's container, otherwise fails and changes nothing; and *)
(* after a successful call the hashlock is in neither container.           *)
C21_ClaimLockedClaimsAndClears ==
    \A secret \in Secrets :
        /\ IF Contains(chan.our_state.locked, sha3(secret))
           THEN ClaimedOn(Channel_claim_locked(chan, secret, NoRoot), "our_state", secret)
           ELSE IF Contains(chan.partner_state.locked, sha3(secret))
           THEN ClaimedOn(Channel_claim_locked(chan, secret, NoRoot), "partner_state", secret)
           ELSE /\ Channel_claim_locked(chan, secret, NoRoot).err
                       = "ValueError: The secret doesnt unlock any hashlock"
                /\ Channel_claim_locked(chan, secret, NoRoot).ch = chan
        /\ Channel_claim_locked(chan, secret, NoRoot).err = NoError =>
               \A end \in Ends :
                   ~Contains(Channel_claim_locked(chan, secret, NoRoot).ch[end].locked,
                             sha3(secret))

(* The routing alone, without the last sentence. *)
C21_ClaimLockedClaimsOnOneSide ==
    \A secret \in Secrets :
        IF Contains(chan.our_state.locked, sha3(secret))
        THEN ClaimedOn(Channel_claim_locked(chan, secret, NoRoot), "our_state", secret)
        ELSE IF Contains(chan.partner_state.locked, sha3(secret))
        THEN ClaimedOn(Channel_claim_locked(chan, secret, NoRoot), "partner_state", secret)
        ELSE /\ Channel_claim_locked(chan, secret, NoRoot).err
                    = "ValueError: The secret doesnt unlock any hashlock"
             /\ Channel_claim_locked(chan, secret, NoRoot).ch = chan

---------------------------------------------------------------------------
(* A step takes the lock of hashlock h out of the container of `end`. *)
LockRemoved(end, h) ==
    Contains(chan[end].locked, h) /\ ~Contains(chan'[end].locked, h)

(* The end that created the locks held in the container of `end` has been *)
(* credited with the amount of the lock of h.                             *)
CreditedFor(end, h) ==
    chan'[Other(end)].transfered_amount
        >= chan[Other(end)].transfered_amount + chan[end].locked.locked[h].lock.amount

(* C22: whenever a step removes a lock from a container (claim_locked, or  *)
(* the registration of a DirectTransfer that carries the secret), the      *)
(* transfered_amount of the end that created the lock is afterwards at     *)
(* least what it was plus the amount of the lock.                          *)
C22_RemovalStep ==
    \A end \in Ends, h \in Hashlocks : LockRemoved(end, h) => CreditedFor(end, h)

C22_LockRemovedOnlyWithCredit == [][C22_RemovalStep]_vars

(* The same for Channel.claim_locked alone, with and without a locksroot. *)
C22_ClaimLockedCredits ==
    \A secret \in Secrets :
        \A locksroot \in ClaimRoots(chan.our_state.locked, secret)
                            \cup ClaimRoots(chan.partner_state.locked, secret) :
            Channel_claim_locked(chan, secret, locksroot).err = NoError =>
                \A end \in Ends :
                    (/\ Contains(chan[end].locked, sha3(secret))
                     /\ ~Contains(Channel_claim_locked(chan, secret, locksroot).ch[end].locked,
                                  sha3(secret))) =>
                        Channel_claim_locked(chan, secret, locksroot).ch[Other(end)].transfered_amount
                            >= chan[Other(end)].transfered_amount
                                   + ClaimedAmount(chan, end, secret)

---------------------------------------------------------------------------
(* The LockedTransfers that carry the current transfered_amount of their  *)
(* sender, and what their registration is to leave of the balances.       *)
PureLockedTransfers(ch) ==
    {m \in Messages(ch) :
        /\ IsLockedTransfer(m)
        /\ m.transfered_amount = ch[FromEnd(ch, m)].transfered_amount}

LocksOnly(before, after, from, to, amount) ==
    /\ balance(after[from], after[to]) = balance(before[from], before[to])
    /\ balance(after[to], after[from]) = balance(before[to], before[from])
    /\ outstanding(after[to].locked) = outstanding(before[to].locked) + amount
    /\ distributable(after[from], after[to])
           = distributable(before[from], before[to]) - amount

(* C23: the registration of an accepted LockedTransfer whose               *)
(* transfered_amount is the current one of its sender leaves both          *)
(* balances unchanged, raises the outstanding of the receiving end's       *)
(* container by the lock amount and lowers the sender's distributable by   *)
(* the lock amount.                                                        *)
C23_LockedTransferLocksItsAmount ==
    \A m \in PureLockedTransfers(chan) :
        register_transfer(chan, m, block).err = NoError =>
            LocksOnly(chan, register_transfer(chan, m, block).ch,
                      FromEnd(chan, m), ToEnd(chan, m), m.lock.amount)

(* A lock of a positive amount is about to be accepted on top of one       *)
(* already held.                                                           *)
C23_Witness ==
    \E m \in PureLockedTransfers(chan) :
        /\ m.lock.amount > 0
        /\ register_transfer(chan, m, block).err = NoError
        /\ Held(chan[ToEnd(chan, m)].locked) # {}

---------------------------------------------------------------------------
(* A channel used as in test_interwoven_transfers: the local node sends    *)
(* locked transfers that move nothing directly, and secrets are revealed.  *)

RegisterOutboundLock ==
    \E m \in {x \in PureLockedTransfers(chan) : FromEnd(chan, x) = "our_state"} :
        /\ register_transfer(chan, m, block).err = NoError
               => Accepted(chan) < MaxTransfers
        /\ chan' = register_transfer(chan, m, block).ch
        /\ UNCHANGED <<chanB, block, locks>>

NextOutbound ==
    \/ RegisterOutboundLock
    \/ ClaimLocked
    \/ UpdateContractBalance
    \/ NextBlock

SpecOutbound == Init /\ [][NextOutbound]_vars

RECURSIVE SumLocksSent(_)
SumLocksSent(transfers) ==
    IF transfers = <<>> THEN 0
    ELSE Head(transfers).lock.amount + SumLocksSent(Tail(transfers))

(* What the claim of the lock of `secret` held by end x, created by the    *)
(* other end y, is to do to the balances.                                  *)
ClaimMoves(before, after, x, y, amount) ==
    /\ balance(after[y], after[x]) = balance(before[y], before[x]) - amount
    /\ balance(after[x], after[y]) = balance(before[x], before[y]) + amount
    /\ outstanding(after[x].locked) = outstanding(before[x].locked) - amount
    /\ distributable(after[y], after[x]) = distributable(before[y], before[x])

ClaimingEnd(ch, secret) ==
    IF Contains(ch.our_state.locked, sha3(secret)) THEN "our_state" ELSE "partner_state"

(* C24: a successful Channel.claim_locked of a lock of amount a lowers the *)
(* balance of the end that created it by a, raises the balance of the end  *)
(* that holds it by a, lowers the outstanding of the holder's container by *)
(* a and leaves the creator's distributable as it was.                     *)
C24_ClaimMovesLockedAmount ==
    \A secret \in Secrets :
        \A locksroot \in ClaimRoots(chan[ClaimingEnd(chan, secret)].locked, secret) :
            Channel_claim_locked(chan, secret, locksroot).err = NoError =>
                ClaimMoves(chan, Channel_claim_locked(chan, secret, locksroot).ch,
                           ClaimingEnd(chan, secret), Other(ClaimingEnd(chan, secret)),
                           ClaimedAmount(chan, ClaimingEnd(chan, secret), secret))

(* C24, with only outbound locked transfers: the claim moves the amount,   *)
(* and the sender's distributable is always its deposit minus the amounts  *)
(* of all the locks it has sent, claimed or not.                           *)
C24_DistributableIsDepositMinusLocksSent ==
    /\ C24_ClaimMovesLockedAmount
    /\ distributable(chan.our_state, chan.partner_state)
           = chan.our_state.contract_balance - SumLocksSent(chan.sent_transfers)

(* Two locks were sent, one of a positive amount has been claimed and the  *)
(* other is still held.                                                    *)
C24_Witness ==
    /\ Len(chan.sent_transfers) = 2
    /\ chan.our_state.transfered_amount > 0
    /\ Cardinality(Held(chan.partner_state.locked)) = 1

---------------------------------------------------------------------------
DirectTransferArguments == TransferAmounts \X ({NoSecret} \cup Secrets)

Affordable(ch, amount) ==
    0 < amount /\ amount <= distributable(ch.our_state, ch.partner_state)

(* The header of a message built for the partner. *)
BuiltFor(ch, transfer, type, transfered_amount) ==
    /\ transfer.type = type
    /\ transfer.nonce = ch.our_state.nonce
    /\ transfer.transfered_amount = transfered_amount
    /\ transfer.recipient = ch.partner_state.address
    /\ transfer.asset = ch.asset_address

(* C25: on an open channel create_directtransfer(amount, secret) fails     *)
(* with 'Insufficient funds' unless 0 < amount <= our distributable;       *)
(* otherwise it returns a DirectTransfer with our nonce, our               *)
(* transfered_amount plus amount, the partner as recipient, and as         *)
(* locksroot the root of the partner's container when there is no secret   *)
(* and the root without the lock of the secret when there is one.          *)
C25_DirectTransferCommitsRootWithoutClaimedLock ==
    isopen(chan.external_state) =>
        \A a \in DirectTransferArguments :
            IF ~Affordable(chan, a[1])
            THEN /\ create_directtransfer(chan, a[1], a[2]).err = "ValueError: Insufficient funds"
                 /\ create_directtransfer(chan, a[1], a[2]).transfer = NoTransfer
            ELSE /\ create_directtransfer(chan, a[1], a[2]).err = NoError
                 /\ BuiltFor(chan, create_directtransfer(chan, a[1], a[2]).transfer,
                             "DirectTransfer", chan.our_state.transfered_amount + a[1])
                 /\ create_directtransfer(chan, a[1], a[2]).transfer.secret = a[2]
                 /\ a[2] = NoSecret =>
                        create_directtransfer(chan, a[1], a[2]).transfer.locksroot
                            = root(chan.partner_state.locked)
                 /\ (a[2] # NoSecret /\ Contains(chan.partner_state.locked, sha3(a[2]))) =>
                        create_directtransfer(chan, a[1], a[2]).transfer.locksroot
                            = RootWithout(chan.partner_state.locked, a[2])

(* What the code does: the locksroot is the current root of the partner's  *)
(* container, with or without a secret.                                    *)
C25_DirectTransferCommitsCurrentRoot ==
    isopen(chan.external_state) =>
        \A a \in DirectTransferArguments :
            IF ~Affordable(chan, a[1])
            THEN /\ create_directtransfer(chan, a[1], a[2]).err = "ValueError: Insufficient funds"
                 /\ create_directtransfer(chan, a[1], a[2]).transfer = NoTransfer
            ELSE /\ create_directtransfer(chan, a[1], a[2]).err = NoError
                 /\ BuiltFor(chan, create_directtransfer(chan, a[1], a[2]).transfer,
                             "DirectTransfer", chan.our_state.transfered_amount + a[1])
                 /\ create_directtransfer(chan, a[1], a[2]).transfer.secret = a[2]
                 /\ create_directtransfer(chan, a[1], a[2]).transfer.locksroot
                        = root(chan.partner_state.locked)

---------------------------------------------------------------------------
RootWithLock(ls, lock) == merkleroot(Append(ls.cached_lock_hashes, sha3_lock(lock)))

(* The LockedTransfer create_lockedtransfer is to return for lock l. *)
BuiltLockedTransfer(ch, transfer, l) ==
    /\ BuiltFor(ch, transfer, "LockedTransfer", ch.our_state.transfered_amount)
    /\ transfer.lock = l
    /\ transfer.locksroot = RootWithLock(ch.partner_state.locked, l)

(* C26: create_lockedtransfer(amount, expiration, hashlock) returns a      *)
(* message only if reveal_timeout < expiration - b < settle_timeout, both  *)
(* strict, and 0 < amount <= our distributable; the message has our nonce, *)
(* our transfered_amount, the lock of the three arguments and the root of  *)
(* the partner's container with the lock included.                         *)
C26_LockedTransferBuiltWithinWindow ==
    \A l \in Locks :
        create_lockedtransfer(chan, l.amount, l.expiration, l.hashlock, block).err = NoError =>
            /\ InLockTimeWindow([lock |-> l])
            /\ Affordable(chan, l.amount)
            /\ BuiltLockedTransfer(chan,
                   create_lockedtransfer(chan, l.amount, l.expiration, l.hashlock, block).transfer,
                   l)

(* What the code does: the lower bound of the window is not strict. *)
C26_LockedTransferBuiltWithinWiderWindow ==
    \A l \in Locks :
        create_lockedtransfer(chan, l.amount, l.expiration, l.hashlock, block).err = NoError =>
            /\ reveal_timeout <= l.expiration - block
            /\ l.expiration - block < settle_timeout
            /\ Affordable(chan, l.amount)
            /\ BuiltLockedTransfer(chan,
                   create_lockedtransfer(chan, l.amount, l.expiration, l.hashlock, block).transfer,
                   l)

---------------------------------------------------------------------------
(* A channel whose local end has deposited more than one lock can take:  *)
(* the local node sends locked transfers, secrets are revealed and        *)
(* further messages are built.                                           *)

FundedDeposit == MaxBalance + 1

InitFunded ==
    /\ chan = Channel(ChannelEndState("our", FundedDeposit), ChannelEndState("partner", 0),
                      ChannelExternalState(1, 0, 0), "asset")
    /\ chanB = Channel(ChannelEndState("partner", 0), ChannelEndState("our", FundedDeposit),
                       ChannelExternalState(1, 0, 0), "asset")
    /\ block = 1
    /\ locks = LockedTransfers

NextFunded ==
    \/ RegisterOutboundLock
    \/ ClaimLocked
    \/ UpdateContractBalance
    \/ NextBlock
    \/ CreateDirectTransfer
    \/ CreateLockedTransfer
    \/ CreateMediatedTransfer
    \/ CreateRefundTransferFor
    \/ CreateTimeoutTransferFor

SpecFunded == InitFunded /\ [][NextFunded]_vars

Untouched(built) == ChannelView(built.ch) = ChannelView(chan)

(* C27: no message constructor changes the state of the channel, whether   *)
(* it returns a message or fails: the nonces, the transfered amounts, the  *)
(* contract balances, both containers (mapping and order of the hash       *)
(* list) and the lists of sent and received transfers stay as they were.   *)
C27_ConstructorsLeaveChannelUnchanged ==
    /\ \A a \in DirectTransferArguments : Untouched(create_directtransfer(chan, a[1], a[2]))
    /\ \A l \in Locks :
           /\ Untouched(create_lockedtransfer(chan, l.amount, l.expiration, l.hashlock, block))
           /\ Untouched(create_mediatedtransfer(chan, l.amount, l.expiration, l.hashlock, block))
    /\ \A t \in TransfersToAnswer(chan) :
           /\ Untouched(create_refundtransfer_for(chan, t, block))
           /\ Untouched(create_timeouttransfer_for(chan, t))

---------------------------------------------------------------------------
(* The channel but for the order of the hash lists. *)
UnorderedView(ch) ==
    [end \in Ends |->
        [transfered_amount |-> ch[end].transfered_amount,
         nonce |-> ch[end].nonce,
         contract_balance |-> ch[end].contract_balance,
         locked |-> ch[end].locked.locked,
         hashes |-> {ch[end].locked.cached_lock_hashes[i] :
                        i \in 1 .. Len(ch[end].locked.cached_lock_hashes)},
         size |-> Len(ch[end].locked.cached_lock_hashes),
         transfers |-> <<ch.sent_transfers, ch.received_transfers>>]]

KeepsAllButOrder(built) == UnorderedView(built.ch) = UnorderedView(chan)

(* The part of C27 that holds: everything but the order of the hash lists. *)
C27_ConstructorsKeepAllButOrder ==
    /\ \A a \in DirectTransferArguments :
           KeepsAllButOrder(create_directtransfer(chan, a[1], a[2]))
    /\ \A l \in Locks :
           /\ KeepsAllButOrder(create_lockedtransfer(chan, l.amount, l.expiration, l.hashlock,
                                                     block))
           /\ KeepsAllButOrder(create_mediatedtransfer(chan, l.amount, l.expiration, l.hashlock,
                                                       block))
    /\ \A t \in TransfersToAnswer(chan) :
           /\ KeepsAllButOrder(create_refundtransfer_for(chan, t, block))
           /\ KeepsAllButOrder(create_timeouttransfer_for(chan, t))

---------------------------------------------------------------------------
(* What an accepted transfer from end x to end y leaves alone, and what it *)
(* sets.                                                                   *)
FrameOfTransfer(before, after, x, y, m) ==
    /\ after[y].nonce = before[y].nonce
    /\ after[y].transfered_amount = before[y].transfered_amount
    /\ after[x].locked.locked = before[x].locked.locked
    /\ after[x].locked.cached_lock_hashes = before[x].locked.cached_lock_hashes
    /\ after[x].contract_balance = before[x].contract_balance
    /\ after[y].contract_balance = before[y].contract_balance
    /\ after[x].transfered_amount = m.transfered_amount
    /\ after[x].nonce = before[x].nonce + 1

(* C28: an accepted transfer from end X to end Y leaves Y's nonce and      *)
(* transfered_amount, X's container and both contract balances unchanged,  *)
(* and X's transfered_amount is afterwards the one of the message.         *)
C28_AcceptedTransferFrame ==
    \A m \in Messages(chan) :
        register_transfer(chan, m, block).err = NoError =>
            FrameOfTransfer(chan, register_transfer(chan, m, block).ch,
                            FromEnd(chan, m), ToEnd(chan, m), m)

(* Value has been transferred, a DirectTransfer carrying a secret has been *)
(* accepted, and a further transfer is about to be.                        *)
C28_Witness ==
    /\ \E i \in 1 .. Len(chan.sent_transfers) : chan.sent_transfers[i].secret # NoSecret
    /\ chan.our_state.transfered_amount > 0
    /\ \E m \in Messages(chan) : register_transfer(chan, m, block).err = NoError

---------------------------------------------------------------------------
(* C29: after any sequence of add, remove, root and root_with, root()      *)
(* returns the merkle root of the current ordered hash list (a cached root *)
(* is never one of an earlier list), and the root of the empty container   *)
(* is the fixed empty root.                                                *)
C29_RootIsRootOfCurrentHashes ==
    /\ root(locks) = merkleroot(locks.cached_lock_hashes)
    /\ locks.cached_lock_hashes = <<>> => root(locks) = EmptyRoot

(* add and remove do reset the cached root. *)
C29_MappingStep == locks'.locked # locks.locked => locks'.cached_root = NoRoot

C29_AddAndRemoveResetCache == [][C29_MappingStep]_vars

---------------------------------------------------------------------------
(* C30: in every state reached through register_transfer, claim_locked and *)
(* the constructors, each container holds at most one transfer per         *)
(* hashlock, and its list of hashes has exactly one element, the hash of   *)
(* the lock, for each transfer held: the same length as the mapping, no    *)
(* hash twice, no hash of a lock that is not held. A locked transfer whose *)
(* hashlock the receiving container already holds is never applied: it is  *)
(* refused, and the mapping, the amounts, the nonces and the lists of      *)
(* accepted transfers stay as they were.                                   *)
HashesOfHeld(ls) == {sha3_lock(ls.locked[h].lock) : h \in Held(ls)}

OneHashPerEntry(ls) ==
    /\ \A h \in Held(ls) : ls.locked[h].lock.hashlock = h
    /\ Len(ls.cached_lock_hashes) = Cardinality(Held(ls))
    /\ \A i, j \in 1 .. Len(ls.cached_lock_hashes) :
           ls.cached_lock_hashes[i] = ls.cached_lock_hashes[j] => i = j
    /\ {ls.cached_lock_hashes[i] : i \in 1 .. Len(ls.cached_lock_hashes)} = HashesOfHeld(ls)

RepeatsHashlock(ch, m) ==
    /\ IsLockedTransfer(m)
    /\ m.recipient \in {ch.our_state.address, ch.partner_state.address}
    /\ Contains(ch[EndOf(ch, m.recipient)].locked, m.lock.hashlock)

C30_OneHashPerHeldLock ==
    /\ \A end \in Ends : OneHashPerEntry(chan[end].locked)
    /\ \A m \in Messages(chan) :
           RepeatsHashlock(chan, m) =>
               /\ register_transfer(chan, m, block).err # NoError
               /\ UnorderedView(register_transfer(chan, m, block).ch) = UnorderedView(chan)

C30_Witness ==
    \E m \in Messages(chan) :
        /\ RepeatsHashlock(chan, m)
        /\ Cardinality(Held(chan[EndOf(chan, m.recipient)].locked)) = 2
        /\ register_transfer(chan, m, block).err = "AssertionError"
        /\ register_transfer(chan, m, block).ch # chan

---------------------------------------------------------------------------
(* A channel whose locks reach their expiration: the block number goes up  *)
(* to MaxExpiryBlock, the expiration of the earlier locks.                 *)
NextBlockToExpiry ==
    /\ block < MaxExpiryBlock
    /\ block' = block + 1
    /\ UNCHANGED <<chan, chanB, locks>>

NextExpiry ==
    \/ RegisterTransfer
    \/ ClaimLocked
    \/ NextBlockToExpiry

SpecExpiry == Init /\ [][NextExpiry]_vars

(* The hashlocks of the locks `end` holds whose expiration has been        *)
(* reached at `block_number`.                                              *)
Expired(ch, end, block_number) ==
    {h \in Held(ch[end].locked) : block_number >= ch[end].locked.locked[h].lock.expiration}

(* A step that is a successful claim of the lock of h held by `end`: a     *)
(* call of Channel.claim_locked with its secret, or the registration of a  *)
(* DirectTransfer from the other end that carries its secret.              *)
ClaimOf(end, h) ==
    \E secret \in Secrets :
        /\ sha3(secret) = h
        /\ \/ \E locksroot \in {NoRoot, EmptyRoot} :
                  /\ Channel_claim_locked(chan, secret, locksroot).err = NoError
                  /\ chan' = Channel_claim_locked(chan, secret, locksroot).ch
           \/ /\ AcceptedFrom(Other(end))
              /\ IsDirectTransfer(AcceptedMessage(Other(end)))
              /\ AcceptedMessage(Other(end)).secret = secret

(* C31: a step that only advances the block number changes nothing of the  *)
(* channel; a lock whose expiration has been reached is still held, still  *)
(* counts in outstanding and still reduces the distributable of the end    *)
(* that sent it; and a lock leaves a container only by a successful claim. *)
C31_Step ==
    /\ block' # block => chan' = chan
    /\ \A end \in Ends, h \in Hashlocks : LockRemoved(end, h) => ClaimOf(end, h)

C31_ExpiredLocksStillCount ==
    \A end \in Ends :
        /\ outstanding(chan[end].locked) >= SumAmounts(chan[end].locked, Expired(chan, end, block))
        /\ distributable(chan[Other(end)], chan[end])
               <= balance(chan[Other(end)], chan[end])
                      - SumAmounts(chan[end].locked, Expired(chan, end, block))

C31_ExpiredLocksStay == [](C31_ExpiredLocksStillCount) /\ [][C31_Step]_vars

C31_Witness ==
    \E end \in Ends :
        /\ SumAmounts(chan[end].locked, Expired(chan, end, block)) > 0
        /\ distributable(chan[Other(end)], chan[end]) = 0

---------------------------------------------------------------------------
(* The channels one other operation leads to from ch: a call of            *)
(* Channel.claim_locked, or the registration of a message of the partner.  *)
AfterClaim(ch) == {Channel_claim_locked(ch, secret, NoRoot).ch : secret \in Secrets}

AfterInbound(ch, block_number) ==
    {register_transfer(ch, m, block_number).ch :
        m \in {x \in Messages(ch) : FromEnd(ch, x) = "partner_state"}}

(* The registration on `mid` of a direct transfer built for `amount`: when *)
(* it is accepted, our transfered_amount goes up by `amount` and the       *)
(* locksroot of the message is the root of the partner's container.        *)
RegistersAsBuilt(mid, transfer, amount, block_number) ==
    register_transfer(mid, transfer, block_number).err = NoError =>
        /\ register_transfer(mid, transfer, block_number).ch.our_state.transfered_amount
               = mid.our_state.transfered_amount + amount
        /\ transfer.locksroot = root(mid.partner_state.locked)

BuiltThenRegistered(built, amount, between) ==
    built.err = NoError =>
        \A mid \in between :
            RegistersAsBuilt(mid, sign(built.transfer, chan.our_state.address), amount, block)

(* C32: a direct transfer built by create_directtransfer(amount) and       *)
(* registered on the same channel after another operation of the channel   *)
(* (a claim_locked call, an inbound registration) is either rejected, or   *)
(* raises our transfered_amount by exactly `amount` and carries the root   *)
(* the partner's container has at the registration.                        *)
C32_BuiltDirectTransferRegistersAsBuilt ==
    \A amount \in TransferAmounts :
        /\ BuiltThenRegistered(create_directtransfer(chan, amount, NoSecret), amount,
                               AfterClaim(create_directtransfer(chan, amount, NoSecret).ch))
        /\ BuiltThenRegistered(create_directtransfer(chan, amount, NoSecret), amount,
                               AfterInbound(create_directtransfer(chan, amount, NoSecret).ch, block))

(* With nothing in between, or an inbound registration only, it holds. *)
C32_InboundRegistrationsKeepBuiltTransfer ==
    \A amount \in TransferAmounts :
        /\ BuiltThenRegistered(create_directtransfer(chan, amount, NoSecret), amount,
                               {create_directtransfer(chan, amount, NoSecret).ch})
        /\ BuiltThenRegistered(create_directtransfer(chan, amount, NoSecret), amount,
                               AfterInbound(create_directtransfer(chan, amount, NoSecret).ch, block))

---------------------------------------------------------------------------
(* The list of accepted transfers of `end` holds, at place k, a transfer   *)
(* of nonce k sent by `end`, and the nonce of `end` is the next one.       *)
NoncesInOrder(ch, end) ==
    /\ ch[end].nonce = 1 + Len(ch[SentList(end)])
    /\ \A k \in 1 .. Len(ch[SentList(end)]) :
           /\ ch[SentList(end)][k].nonce = k
           /\ ch[SentList(end)][k].recipient = ch[Other(end)].address

(* A rejected registration leaves both lists and both nonces as they were. *)
RejectedIsNotKept(before, r) ==
    r.err # NoError =>
        /\ r.ch.sent_transfers = before.sent_transfers
        /\ r.ch.received_transfers = before.received_transfers
        /\ \A end \in Ends : r.ch[end].nonce = before[end].nonce

(* A step changes a list only by appending one transfer that carries the   *)
(* nonce its sender had.                                                   *)
AppendsNextNonce(end) ==
    chan'[SentList(end)] # chan[SentList(end)] =>
        /\ AcceptedFrom(end)
        /\ SubSeq(chan'[SentList(end)], 1, Len(chan[SentList(end)])) = chan[SentList(end)]
        /\ AcceptedMessage(end).nonce = chan[end].nonce

(* C33: in every reachable state our nonce is 1 + the length of            *)
(* sent_transfers and the partner's is 1 + the length of                   *)
(* received_transfers, and the k-th transfer of each list carries nonce k: *)
(* the lists are the accepted transfers of each direction in nonce order,  *)
(* without gaps, duplicates or rejected messages.                          *)
C33_ListsFollowNonces ==
    /\ \A end \in Ends : NoncesInOrder(chan, end)
    /\ \A m \in Messages(chan) : RejectedIsNotKept(chan, register_transfer(chan, m, block))

C33_Step == \A end \in Ends : AppendsNextNonce(end)

C33_NoncesCountAcceptedTransfers == [](C33_ListsFollowNonces) /\ [][C33_Step]_vars

C33_Witness ==
    /\ \E end \in Ends : Len(chan[SentList(end)]) = 2
    /\ \E m \in Messages(chan) : register_transfer(chan, m, block).err = "InvalidNonce"

---------------------------------------------------------------------------
(* C34: every lock held in either container has an amount above 0,        *)
(* whatever transfers were accepted, those not built by                    *)
(* create_lockedtransfer included; so outstanding is above 0 whenever a    *)
(* container is not empty.                                                 *)
C34_HeldLocksHavePositiveAmount ==
    \A end \in Ends :
        /\ \A h \in Held(chan[end].locked) : chan[end].locked.locked[h].lock.amount > 0
        /\ Held(chan[end].locked) # {} => outstanding(chan[end].locked) > 0

(* The locks create_lockedtransfer and create_mediatedtransfer build do    *)
(* have an amount above 0.                                                 *)
C34_BuiltLocksHavePositiveAmount ==
    \A l \in Locks :
        /\ create_lockedtransfer(chan, l.amount, l.expiration, l.hashlock, block).err = NoError
               => create_lockedtransfer(chan, l.amount, l.expiration, l.hashlock,
                                        block).transfer.lock.amount > 0
        /\ create_mediatedtransfer(chan, l.amount, l.expiration, l.hashlock, block).err = NoError
               => create_mediatedtransfer(chan, l.amount, l.expiration, l.hashlock,
                                          block).transfer.lock.amount > 0

===========================================================================
